---- MODULE Spec2Model ----
(***************************************************************************)
(* Model of src/theme-toggle.js: a keyboard shortcut (Ctrl/Cmd+Shift+L)    *)
(* that toggles the page theme, preferring the host site's own toggle      *)
(* control and falling back to a manual toggle of the root/body            *)
(* presentation attributes plus two localStorage keys.                     *)
(*                                                                         *)
(* Text (attribute values, svg markup) is modelled as a sequence of        *)
(* one-character strings so that substring search and toLowerCase are      *)
(* computed, not assumed.                                                  *)
(***************************************************************************)
EXTENDS Integers, Sequences, FiniteSets, TLC

\* Longest document (number of elements) explored by SpecClick.
MaxElems == 2

----------------------------------------------------------------------------
\* Values

\* JavaScript null: a missing storage key or a missing attribute.
NULL == "<null>"

THEME_STORAGE_KEY == "mintlify-theme-preference"

MINTLIFY_THEME_KEY == "theme"

StorageKeys == {THEME_STORAGE_KEY, MINTLIFY_THEME_KEY}

\* What a storage key may hold when the page is opened: nothing, the empty
\* string, the two values this script writes, or a value of the host's own.
StorageValues == {NULL, "", "light", "dark", "system"}

\* The data-theme attribute of the root element.
DataThemeValues == {NULL, "light", "dark", "sepia"}

\* JavaScript truthiness of a string-or-null.
Truthy(v) == v \notin {NULL, ""}

----------------------------------------------------------------------------
\* Text

t_theme == <<"t","h","e","m","e">>
t_dark == <<"d","a","r","k">>
t_light == <<"l","i","g","h","t">>
t_mode == <<"m","o","d","e">>
t_toggle == <<"t","o","g","g","l","e">>
t_sun == <<"s","u","n">>
t_moon == <<"m","o","o","n">>
t_theme_toggle == t_theme \o <<"-">> \o t_toggle
t_mode_toggle == t_mode \o <<"-">> \o t_toggle
t_svg == <<"<","s","v","g",">">>

UpperCase == <<"A","B","C","D","E","F","G","H","I","J","K","L","M",
               "N","O","P","Q","R","S","T","U","V","W","X","Y","Z">>

LowerCase == <<"a","b","c","d","e","f","g","h","i","j","k","l","m",
               "n","o","p","q","r","s","t","u","v","w","x","y","z">>

\* String.prototype.toLowerCase, character by character.
toLowerCase(s) ==
  [i \in 1..Len(s) |->
     IF \E k \in 1..26 : UpperCase[k] = s[i]
       THEN LowerCase[CHOOSE k \in 1..26 : UpperCase[k] = s[i]]
       ELSE s[i]]

\* String.prototype.includes / the CSS *= substring test.
includes(s, n) ==
  \E i \in 1..(Len(s) - Len(n) + 1) : SubSeq(s, i, i + Len(n) - 1) = n

----------------------------------------------------------------------------
\* Document

\* The nine selectors of clickThemeToggleButton, in their order.
\*   tag  : "button" or "*" (any element)
\*   attr : the attribute tested;  kind : "substr" (*=) or "class" (.name)
selectors == <<
  [tag |-> "button", attr |-> "aria-label",  kind |-> "substr", val |-> t_theme],
  [tag |-> "button", attr |-> "aria-label",  kind |-> "substr", val |-> t_dark],
  [tag |-> "button", attr |-> "aria-label",  kind |-> "substr", val |-> t_light],
  [tag |-> "button", attr |-> "aria-label",  kind |-> "substr", val |-> t_mode],
  [tag |-> "*",      attr |-> "data-testid", kind |-> "substr", val |-> t_theme],
  [tag |-> "*",      attr |-> "data-testid", kind |-> "substr", val |-> t_toggle],
  [tag |-> "*",      attr |-> "class",       kind |-> "class",  val |-> t_theme_toggle],
  [tag |-> "*",      attr |-> "class",       kind |-> "substr", val |-> t_theme_toggle],
  [tag |-> "*",      attr |-> "class",       kind |-> "substr", val |-> t_mode_toggle] >>

NumSelectors == Len(selectors)

\* An element: tag, aria-label, data-testid (<<>> when absent), its class
\* list (a sequence of class names), the outerHTML of its first svg
\* descendant (<<>> when it has none), and whether offsetParent is non-null.
Elem(tag, aria, testid, classes, svg, shown) ==
  [tag |-> tag, ariaLabel |-> aria, testid |-> testid,
   classList |-> classes, svg |-> svg, offsetParent |-> shown]

\* Does element e match selector s?  A class attribute is the class names
\* joined by spaces; the needles hold no space, so the attribute contains a
\* needle exactly when one class name does.
Matches(e, s) ==
  /\ s.tag = "*" \/ e.tag = s.tag
  /\ CASE s.attr = "aria-label"  -> includes(e.ariaLabel, s.val)
       [] s.attr = "data-testid" -> includes(e.testid, s.val)
       [] s.attr = "class" /\ s.kind = "class" ->
            \E k \in 1..Len(e.classList) : e.classList[k] = s.val
       [] OTHER ->
            \E k \in 1..Len(e.classList) : includes(e.classList[k], s.val)

\* document.querySelector: the first element in document order that
\* matches, or 0 for null.
querySelector(d, s) ==
  IF \E i \in 1..Len(d) : Matches(d[i], s)
    THEN CHOOSE i \in 1..Len(d) :
           /\ Matches(d[i], s)
           /\ \A j \in 1..(i - 1) : ~Matches(d[j], s)
    ELSE 0

\* The test of lines 45-49 on one button: it has an svg whose lower-cased
\* markup mentions sun, moon, light or dark.
hasThemeIcon(e) ==
  /\ e.svg # <<>>
  /\ LET svgHTML == toLowerCase(e.svg)
     IN  \/ includes(svgHTML, t_sun)
         \/ includes(svgHTML, t_moon)
         \/ includes(svgHTML, t_light)
         \/ includes(svgHTML, t_dark)

----------------------------------------------------------------------------
\* clickThemeToggleButton (lines 11-60)
\*
\* Faults are inputs: qThrow is the set of selector positions whose
\* querySelector call throws, cThrow the set of elements whose click()
\* throws, qaThrow whether querySelectorAll('button') throws.
\* A result records the return value, the elements whose click() completed
\* (clicks), every click() invocation (calls) and the exceptions caught.

ClickResult(ret, clicks, calls, caught) ==
  [ret |-> ret, clicks |-> clicks, calls |-> calls, caught |-> caught]

\* A faulty variant of the test of line 29: the visibility check is lost.
isAnyMatch(d, b) == b # 0

\* The visibility test of line 29 on the element querySelector returned
\* (0 stands for null).
isVisibleMatch(d, b) == b # 0 /\ d[b].offsetParent

RECURSIVE trySelectors(_, _, _, _, _, _)
\* The loop of lines 26-36 from selector position i on.
trySelectors(i, d, qThrow, cThrow, calls, caught) ==
  IF i > NumSelectors
    THEN ClickResult(FALSE, <<>>, calls, caught)
    ELSE IF i \in qThrow
      THEN trySelectors(i + 1, d, qThrow, cThrow, calls, caught + 1)
      ELSE LET button == querySelector(d, selectors[i])
           IN  IF isVisibleMatch(d, button)
                 THEN IF button \in cThrow
                        THEN trySelectors(i + 1, d, qThrow, cThrow,
                                          Append(calls, button), caught + 1)
                        ELSE ClickResult(TRUE, <<button>>,
                                         Append(calls, button), caught)
                 ELSE trySelectors(i + 1, d, qThrow, cThrow, calls, caught)

RECURSIVE scanButtons(_, _, _, _, _)
\* The loop of lines 41-54 from document position j on; a click() that
\* throws leaves the whole try block of lines 39-57.
scanButtons(j, d, cThrow, calls, caught) ==
  IF j > Len(d)
    THEN ClickResult(FALSE, <<>>, calls, caught)
    ELSE IF d[j].tag # "button" \/ ~d[j].offsetParent
      THEN scanButtons(j + 1, d, cThrow, calls, caught)
      ELSE IF hasThemeIcon(d[j])
        THEN IF j \in cThrow
               THEN ClickResult(FALSE, <<>>, Append(calls, j), caught + 1)
               ELSE ClickResult(TRUE, <<j>>, Append(calls, j), caught)
        ELSE scanButtons(j + 1, d, cThrow, calls, caught)

clickThemeToggleButton(d, qThrow, cThrow, qaThrow) ==
  LET first == trySelectors(1, d, qThrow, cThrow, <<>>, 0)
  IN  IF first.ret
        THEN first
        ELSE IF qaThrow
          THEN ClickResult(FALSE, <<>>, first.calls, first.caught + 1)
          ELSE scanButtons(1, d, cThrow, first.calls, first.caught)

----------------------------------------------------------------------------
\* Presentation attributes and storage
\*
\* html = [dark : root has class 'dark', dataTheme : root data-theme]
\* body = [dark : body has class 'dark']
\* A page state st is [html, body, store], store mapping each key to its
\* value (NULL when the key is absent).

Page(h, b, st) == [html |-> h, body |-> b, store |-> st]

\* Storage.setItem when it does not throw.
setItem(store, key, value) == [store EXCEPT ![key] = value]

\* A faulty variant of lines 69-71: only the root class is consulted.
isDarkRootOnly(h, b) == h.dark

\* Lines 69-71.
isDark(h, b) == h.dark \/ h.dataTheme = "dark" \/ b.dark

\* Lines 75-77 and 122-124 (light), 82-84 and 118-120 (dark): the three
\* presentation writes for a theme.
setPresentation(st, theme) ==
  [st EXCEPT !.html = [dark |-> theme = "dark", dataTheme |-> theme],
             !.body = [dark |-> theme = "dark"]]

\* The value written by lines 78-79 / 85-86 for the branch taken.
storedValue(dark) == IF dark THEN "light" ELSE "dark"

\* A faulty variant of line 91: the event reports the theme that was in
\* effect before the toggle.
eventDetailStale(dark) == IF dark THEN "dark" ELSE "light"

\* Line 91: the detail.theme of the themechange event.
eventDetail(dark) == IF dark THEN "light" ELSE "dark"

\* The outcome of running a function body: the page state it leaves, what
\* it did, and whether it ended by throwing.
Outcome(st, setCalls, events, thrown) ==
  [st |-> st, setCalls |-> setCalls, events |-> events, thrown |-> thrown]

\* Lines 67-97, the body of the try block of toggleTheme.  fault names the
\* guarded call that throws: 1 or 2 the first or second setItem, 3 or 4 the
\* dispatch on document or on window (a failing event construction, line 90,
\* ends the body where fault 3 does); 0 is no fault.
toggleBody(st, fault) ==
  LET dark == isDark(st.html, st.body)
      value == storedValue(dark)
      s1 == setPresentation(st, IF dark THEN "light" ELSE "dark")
      s2 == [s1 EXCEPT !.store = setItem(s1.store, THEME_STORAGE_KEY, value)]
      s3 == [s2 EXCEPT !.store = setItem(s2.store, MINTLIFY_THEME_KEY, value)]
      ev(target) == [target |-> target, theme |-> eventDetail(dark)]
  IN  CASE fault = 1 ->
             Outcome(s1, <<THEME_STORAGE_KEY>>, <<>>, TRUE)
        [] fault = 2 ->
             Outcome(s2, <<THEME_STORAGE_KEY, MINTLIFY_THEME_KEY>>, <<>>, TRUE)
        [] fault = 3 ->
             Outcome(s3, <<THEME_STORAGE_KEY, MINTLIFY_THEME_KEY>>, <<>>, TRUE)
        [] fault = 4 ->
             Outcome(s3, <<THEME_STORAGE_KEY, MINTLIFY_THEME_KEY>>,
                     <<ev("document")>>, TRUE)
        [] OTHER ->
             Outcome(s3, <<THEME_STORAGE_KEY, MINTLIFY_THEME_KEY>>,
                     <<ev("document"), ev("window")>>, FALSE)

\* A finished call: the outcome of the body, how many times the body ran,
\* how many exceptions were caught (and warned about), and whether an
\* exception left the function.
Call(out, runs, caught, escaped) ==
  [st |-> out.st, setCalls |-> out.setCalls, events |-> out.events,
   runs |-> runs, caught |-> caught, escaped |-> escaped]

\* A faulty variant of lines 98-101: the exception is passed on to the caller.
catchToggleRethrow(out) == Call(out, 1, 0, out.thrown)

\* The try/catch of lines 66 and 98-101: the body runs once and whatever it
\* throws is caught and logged.
catchToggle(out) == Call(out, 1, IF out.thrown THEN 1 ELSE 0, FALSE)

\* toggleTheme (lines 65-102).
toggleTheme(st, fault) == catchToggle(toggleBody(st, fault))

\* A faulty variant of lines 110-111: the second key is never consulted.
readSavedThemeFirstKeyOnly(store, getThrow) ==
  IF getThrow = 1 THEN "<throw>" ELSE store[THEME_STORAGE_KEY]

\* Lines 110-111: getItem(first key) || getItem(second key).  getThrow = 1
\* or 2 makes the first or second getItem call throw; the second call is
\* made only when the first value is falsy.  The result is the value read,
\* or "<throw>".
readSavedTheme(store, getThrow) ==
  IF getThrow = 1
    THEN "<throw>"
    ELSE IF Truthy(store[THEME_STORAGE_KEY])
      THEN store[THEME_STORAGE_KEY]
      ELSE IF getThrow = 2
        THEN "<throw>"
        ELSE store[MINTLIFY_THEME_KEY]

\* A faulty variant of lines 113-126: the test of line 113 is lost, so a
\* missing preference is applied as light.
applyThemeUnguarded(st, savedTheme) ==
  IF savedTheme = "dark"
    THEN setPresentation(st, "dark")
    ELSE setPresentation(st, "light")

\* Lines 113-126: what is done with the value read.
applyTheme(st, savedTheme) ==
  IF Truthy(savedTheme)
    THEN IF savedTheme = "dark"
           THEN setPresentation(st, "dark")
           ELSE setPresentation(st, "light")
    ELSE st

\* Lines 109-126, the body of the try block of applySavedTheme.
applyBody(st, getThrow) ==
  LET savedTheme == readSavedTheme(st.store, getThrow)
  IN  IF savedTheme = "<throw>"
        THEN Outcome(st, <<>>, <<>>, TRUE)
        ELSE Outcome(applyTheme(st, savedTheme), <<>>, <<>>, FALSE)

\* The try/catch of lines 108 and 127-130.
catchApply(out) == Call(out, 1, IF out.thrown THEN 1 ELSE 0, FALSE)

\* applySavedTheme (lines 107-131).
applySavedTheme(st, getThrow) == catchApply(applyBody(st, getThrow))

----------------------------------------------------------------------------
\* handleKeyboardShortcut (lines 136-155)

\* A keydown event.
KeyEvents ==
  [ctrlKey : BOOLEAN, metaKey : BOOLEAN, shiftKey : BOOLEAN,
   key : {"L", "l", "k", "Unidentified"}, keyCode : {76, 75}]

\* Lines 138-142.
isShortcut(event) ==
  /\ event.ctrlKey \/ event.metaKey
  /\ event.shiftKey
  /\ event.key = "L" \/ event.key = "l" \/ event.keyCode = 76

\* Line 151: the manual toggle runs when no control was clicked.
needsFallback(buttonClicked) == ~buttonClicked

\* Lines 143-153 for a matching event: the click attempt, then the manual
\* toggle if it is needed.  The result pairs the click result with the
\* toggle call (runs = 0 when toggleTheme was not called).
handleShortcut(st, d, qThrow, cThrow, qaThrow, fault) ==
  LET click == clickThemeToggleButton(d, qThrow, cThrow, qaThrow)
      toggle == IF needsFallback(click.ret)
                  THEN toggleTheme(st, fault)
                  ELSE Call(Outcome(st, <<>>, <<>>, FALSE), 0, 0, FALSE)
  IN  [click |-> click, toggle |-> toggle]

----------------------------------------------------------------------------
\* Pages

\* The kinds of element a page is built from, each shown or hidden.
ElemKinds ==
  UNION { { Elem("button", t_theme, <<>>, <<>>, <<>>, shown),
            Elem("button", t_dark \o <<" ">> \o t_mode, <<>>, <<>>, <<>>, shown),
            Elem("button", <<"D","a","r","k">>, <<>>, <<>>, <<>>, shown),
            Elem("div", t_theme, <<>>, <<>>, <<>>, shown),
            Elem("div", <<>>, t_theme, <<>>, <<>>, shown),
            Elem("div", <<>>, <<"n","-">> \o t_toggle, <<>>, <<>>, shown),
            Elem("div", <<>>, <<>>, <<t_theme_toggle>>, <<>>, shown),
            Elem("span", <<>>, <<>>, <<(<<"x","-">> \o t_theme_toggle)>>, <<>>, shown),
            Elem("span", <<>>, <<>>, <<t_mode, t_mode_toggle>>, <<>>, shown),
            Elem("button", <<>>, <<>>, <<>>, t_svg \o <<"S","u","n">>, shown),
            Elem("button", <<>>, <<>>, <<>>, t_svg, shown),
            Elem("div", <<>>, <<>>, <<>>, t_svg \o t_moon, shown),
            Elem("button", <<>>, <<>>, <<>>, <<>>, shown) } : shown \in BOOLEAN }

\* Every document of at most MaxElems elements.
Documents == UNION { [1..n -> ElemKinds] : n \in 0..MaxElems }

\* Four host pages: no control at all, a visible labelled control, the same
\* control hidden, and a hidden class-marked control before a visible icon
\* button.
HostPages ==
  { <<>>,
    << Elem("button", t_theme, <<>>, <<>>, <<>>, TRUE) >>,
    << Elem("button", t_theme, <<>>, <<>>, <<>>, FALSE) >>,
    << Elem("div", <<>>, <<>>, <<t_theme_toggle>>, <<>>, FALSE),
       Elem("button", <<>>, <<>>, <<>>, t_svg \o <<"S","u","n">>, TRUE) >> }

\* The presentation a page may be served with.
Presentations ==
  { Page([dark |-> hd, dataTheme |-> dt], [dark |-> bd], <<>>) :
      hd \in BOOLEAN, dt \in DataThemeValues, bd \in BOOLEAN }

\* No dark class anywhere and no data-theme attribute.
DefaultPresentation ==
  Page([dark |-> FALSE, dataTheme |-> NULL], [dark |-> FALSE], <<>>)

\* The theme a presentation shows: dark as soon as one of the three dark
\* indicators is set.
themeShown(h, b) ==
  IF h.dark \/ h.dataTheme = "dark" \/ b.dark THEN "dark" ELSE "light"

----------------------------------------------------------------------------
\* State

VARIABLES
  html,          \* root element: [dark, dataTheme]
  body,          \* body element: [dark]
  localStorage,  \* key -> value or NULL
  dom,           \* the page's elements in document order
  served,        \* the presentation the page is served with
  browser,       \* which guarded calls may throw: [storage, dom]
  phase,         \* "loading" until the initialisation of lines 158-167 ran
  listening,     \* is handleKeyboardShortcut registered for keydown?
  pendingClick,  \* a host control was clicked and has not reacted yet
  leftTheme,     \* the theme chosen by the latest shortcut press, or NULL
  last,          \* what the last operation did, and the page state before it
  prev           \* a summary of the operation before the last one

vars == <<html, body, localStorage, dom, served, browser, phase, listening,
          pendingClick, leftTheme, last, prev>>

current == Page(html, body, localStorage)

NoClick == ClickResult(FALSE, <<>>, <<>>, 0)

NoCall(st) == Call(Outcome(st, <<>>, <<>>, FALSE), 0, 0, FALSE)

\* The record of an operation: its name, the page state before it, the
\* click result, the toggle or apply call, and whether preventDefault and
\* stopPropagation were called.
Done(op, before, click, call, prevented) ==
  [op |-> op, before |-> before, ret |-> click.ret, clicks |-> click.clicks,
   calls |-> click.calls, runs |-> call.runs, setCalls |-> call.setCalls,
   events |-> call.events, caught |-> click.caught + call.caught,
   escaped |-> call.escaped, prevented |-> prevented]

Opened == Done("open", DefaultPresentation, NoClick, NoCall(DefaultPresentation), FALSE)

\* What is kept of an operation once another one has followed it.
Summary(d) ==
  [op |-> d.op, html |-> d.before.html, body |-> d.before.body,
   caught |-> d.caught > 0]

\* The fault inputs of one operation.
GetFaults == IF browser.storage THEN 0..2 ELSE {0}

ToggleFaults == IF browser.storage THEN 0..4 ELSE {0}

QueryFaults == IF browser.dom THEN {{}, {1}, 1..NumSelectors} ELSE {{}}

ClickFaults == IF browser.dom THEN {{}, 1..Len(dom)} ELSE {{}}

QueryAllFaults == IF browser.dom THEN BOOLEAN ELSE {FALSE}

InitCommon ==
  /\ html = served.html
  /\ body = served.body
  /\ phase = "loading"
  /\ listening = FALSE
  /\ pendingClick = FALSE
  /\ leftTheme = NULL
  /\ last = Opened
  /\ prev = Summary(Opened)

\* A standards-conforming browser whose storage may be unavailable or full
\* and whose event construction may fail; selector queries and click() do
\* not throw.
Init ==
  /\ served \in Presentations
  /\ localStorage \in [StorageKeys -> StorageValues]
  /\ dom \in HostPages
  /\ browser = [storage |-> TRUE, dom |-> FALSE]
  /\ InitCommon

\* Every guarded call may throw.
InitFaults ==
  /\ served = DefaultPresentation
  /\ localStorage \in {[k \in StorageKeys |-> v] : v \in {NULL, "dark"}}
  /\ dom \in HostPages
  /\ browser = [storage |-> TRUE, dom |-> TRUE]
  /\ InitCommon

\* Every document of at most MaxElems elements, in a browser where nothing
\* throws.
InitClick ==
  /\ served = DefaultPresentation
  /\ localStorage = [k \in StorageKeys |-> NULL]
  /\ dom \in Documents
  /\ browser = [storage |-> FALSE, dom |-> FALSE]
  /\ InitCommon

\* Lines 158-167: applySavedTheme, then the keydown listener is added.  An
\* exception leaving applySavedTheme would skip the registration.
Load ==
  /\ phase = "loading"
  /\ \E getThrow \in GetFaults :
       \E call \in {applySavedTheme(current, getThrow)} :
         /\ html' = call.st.html
         /\ body' = call.st.body
         /\ localStorage' = call.st.store
         /\ listening' = ~call.escaped
         /\ last' = Done("load", current, NoClick, call, FALSE)
  /\ phase' = "ready"
  /\ prev' = Summary(last)
  /\ UNCHANGED <<dom, served, browser, pendingClick, leftTheme>>

\* A keydown event that is the shortcut: lines 143-153.
KeyDownShortcut ==
  /\ phase = "ready"
  /\ listening
  /\ (\E event \in KeyEvents : isShortcut(event)) = TRUE
  /\ \E qThrow \in QueryFaults, cThrow \in ClickFaults,
        qaThrow \in QueryAllFaults, fault \in ToggleFaults :
       \E r \in {handleShortcut(current, dom, qThrow, cThrow, qaThrow,
                                fault)} :
         \E op \in {IF r.toggle.runs > 0 THEN "toggle" ELSE "click"} :
           /\ html' = r.toggle.st.html
           /\ body' = r.toggle.st.body
           /\ localStorage' = r.toggle.st.store
           /\ pendingClick' = (pendingClick \/ r.click.clicks # <<>>)
           /\ leftTheme' = IF r.toggle.runs > 0
                             THEN themeShown(r.toggle.st.html, r.toggle.st.body)
                             ELSE leftTheme
           /\ last' = Done(op, current, r.click, r.toggle, TRUE)
  /\ prev' = Summary(last)
  /\ UNCHANGED <<dom, served, browser, phase, listening>>

\* Any other keydown event: the test of lines 138-142 fails and nothing is
\* done.
KeyDownOther ==
  /\ phase = "ready"
  /\ listening
  /\ (\E event \in KeyEvents : ~isShortcut(event)) = TRUE
  /\ UNCHANGED vars

\* The host control reacts to the click of line 30 or 50: the site switches
\* to the other theme and may record it under its own key.
HostReact ==
  /\ pendingClick
  /\ \E theme \in {"light", "dark"}, persist \in BOOLEAN :
       \E st \in {setPresentation(current, theme)} :
         /\ theme # themeShown(html, body)
         /\ html' = st.html
         /\ body' = st.body
         /\ localStorage' = IF persist
                              THEN setItem(localStorage, MINTLIFY_THEME_KEY, theme)
                              ELSE localStorage
         /\ leftTheme' = theme
  /\ pendingClick' = FALSE
  /\ last' = Done("host", current, NoClick, NoCall(current), FALSE)
  /\ prev' = Summary(last)
  /\ UNCHANGED <<dom, served, browser, phase, listening>>

\* The page is left and opened again: the document is served afresh, the
\* script starts over, storage is kept.
Reload ==
  /\ phase = "ready"
  /\ html' = served.html
  /\ body' = served.body
  /\ phase' = "loading"
  /\ listening' = FALSE
  /\ pendingClick' = FALSE
  /\ last' = Opened
  /\ prev' = Summary(Opened)
  /\ UNCHANGED <<localStorage, dom, served, browser, leftTheme>>

Next == Load \/ KeyDownShortcut \/ KeyDownOther \/ HostReact \/ Reload

Spec == Init /\ [][Next]_vars

SpecFaults == InitFaults /\ [][Next]_vars

\* The key presses alone, on every document.
NextClick == Load \/ KeyDownShortcut \/ KeyDownOther

SpecClick == InitClick /\ [][NextClick]_vars

----------------------------------------------------------------------------
\* Properties

\* The last operation was a press of the shortcut.
Pressed == last.op \in {"click", "toggle"}

\* The stored preference: the value under the first key or, if that key is
\* absent, the value under the second.
storedPreference(store) ==
  IF store[THEME_STORAGE_KEY] # NULL
    THEN store[THEME_STORAGE_KEY]
    ELSE store[MINTLIFY_THEME_KEY]

\* The presentation with every indicator agreeing on a theme.
canonical(theme) ==
  Page([dark |-> theme = "dark", dataTheme |-> theme],
       [dark |-> theme = "dark"], <<>>)

isCanonical(h, b) ==
  \E theme \in {"light", "dark"} :
    h = canonical(theme).html /\ b = canonical(theme).body

\* C1: when the page has loaded, storage could be read and the stored
\* preference was "dark", the root has class dark and data-theme dark and
\* the body has class dark, whatever the page was served with.
C1_DarkPreferenceApplied ==
  (/\ last.op = "load"
   /\ last.caught = 0
   /\ storedPreference(last.before.store) = "dark")
  => (html.dark /\ html.dataTheme = "dark" /\ body.dark)

\* A load that found "dark" under the second key only, on a page served
\* light.
C1_Witness ==
  /\ last.op = "load"
  /\ last.caught = 0
  /\ last.before.store[THEME_STORAGE_KEY] = NULL
  /\ last.before.store[MINTLIFY_THEME_KEY] = "dark"
  /\ last.before.html = [dark |-> FALSE, dataTheme |-> "light"]
  /\ ~last.before.body.dark
  /\ html.dark

\* C2: when the page has loaded and neither key held a preference, or
\* reading storage threw, the root and body presentation and the storage
\* are what they were before loading, and setItem was never called.
C2_NoPreferenceNoChange ==
  (/\ last.op = "load"
   /\ \/ last.caught > 0
      \/ \A k \in StorageKeys : ~Truthy(last.before.store[k]))
  => /\ html = last.before.html
     /\ body = last.before.body
     /\ localStorage = last.before.store
     /\ last.setCalls = <<>>

\* A load with both keys absent on a page served with a dark class and a
\* data-theme of its own.
C2_Witness ==
  /\ last.op = "load"
  /\ \A k \in StorageKeys : last.before.store[k] = NULL
  /\ last.before.html = [dark |-> TRUE, dataTheme |-> "sepia"]
  /\ html = [dark |-> TRUE, dataTheme |-> "sepia"]

\* C3 as stated: after two toggleTheme calls in succession the root and body
\* presentation equal their values before the first call.
C3_DoubleToggleRestores ==
  (last.op = "toggle" /\ prev.op = "toggle")
  => (html = prev.html /\ body = prev.body)

\* C3 amended: after two toggleTheme calls in succession the presentation
\* is the canonical presentation of the theme shown before the first call
\* (dark if any indicator was dark), so it equals the presentation before
\* the first call exactly when that one was canonical.
C3_DoubleToggleNormalises ==
  (last.op = "toggle" /\ prev.op = "toggle")
  => LET theme == themeShown(prev.html, prev.body)
     IN  /\ html = canonical(theme).html
         /\ body = canonical(theme).body
         /\ (html = prev.html /\ body = prev.body)
              <=> isCanonical(prev.html, prev.body)

\* Two toggles in succession starting from a page whose only dark indicator
\* was the body class.
C3_Witness ==
  /\ last.op = "toggle"
  /\ prev.op = "toggle"
  /\ prev.html = [dark |-> FALSE, dataTheme |-> NULL]
  /\ prev.body.dark
  /\ html.dataTheme = "dark"

\* Element i of document d is a visible control that one of the nine
\* selectors matches, or a visible button with a theme icon.
isVisibleControl(d, i) ==
  /\ d[i].offsetParent
  /\ \/ \E s \in 1..NumSelectors : Matches(d[i], selectors[s])
     \/ d[i].tag = "button" /\ hasThemeIcon(d[i])

\* C4: after a press of the shortcut on a page that holds a matching
\* visible control, a control was clicked, the manual toggle did not run,
\* no storage key was written, the presentation is unchanged and no
\* themechange event was dispatched.
C4_VisibleControlIsClicked ==
  (Pressed /\ \E i \in 1..Len(dom) : isVisibleControl(dom, i))
  => /\ Len(last.clicks) = 1
     /\ isVisibleControl(dom, last.clicks[1])
     /\ last.runs = 0
     /\ last.setCalls = <<>>
     /\ last.events = <<>>
     /\ html = last.before.html
     /\ body = last.before.body
     /\ localStorage = last.before.store

\* C5: after a press of the shortcut that found no control, the manual
\* toggle ran exactly once and both keys hold the theme now shown.
C5_FallbackWritesBothKeys ==
  (Pressed /\ ~last.ret)
  => /\ last.runs = 1
     /\ localStorage[THEME_STORAGE_KEY] = themeShown(html, body)
     /\ localStorage[MINTLIFY_THEME_KEY] = themeShown(html, body)

\* C6: every themechange event of the last toggle carries the theme the
\* presentation and both keys hold now, which is not the theme shown before
\* the toggle; a toggle in which nothing threw dispatched it on the document
\* and then on the window.
C6_EventCarriesNewTheme ==
  last.op = "toggle"
  => /\ \A i \in 1..Len(last.events) :
          /\ last.events[i].theme = themeShown(html, body)
          /\ last.events[i].theme = localStorage[THEME_STORAGE_KEY]
          /\ last.events[i].theme = localStorage[MINTLIFY_THEME_KEY]
          /\ last.events[i].theme # themeShown(last.before.html, last.before.body)
     /\ last.caught = 0 =>
          /\ Len(last.events) = 2
          /\ last.events[1].target = "document"
          /\ last.events[2].target = "window"

\* A toggle from dark to light that dispatched both events.
C6_Witness ==
  /\ last.op = "toggle"
  /\ Len(last.events) = 2
  /\ last.events[2].theme = "light"
  /\ themeShown(last.before.html, last.before.body) = "dark"

\* C7: once a press of the shortcut has chosen a theme and the page, served
\* with the default presentation, has been opened again and has loaded, the
\* presentation shows the theme that was in effect when the page was left.
C7_ThemePersistsAcrossReload ==
  (/\ last.op = "load"
   /\ leftTheme # NULL
   /\ served = DefaultPresentation)
  => themeShown(html, body) = leftTheme

\* C8: after a toggleTheme call, whether or not a storage write threw, the
\* two keys hold equal values, equal to the theme the presentation shows.
C8_KeysConsistentAfterToggle ==
  last.op = "toggle"
  => /\ localStorage[THEME_STORAGE_KEY] = localStorage[MINTLIFY_THEME_KEY]
     /\ localStorage[THEME_STORAGE_KEY] = themeShown(html, body)

\* C9: no exception leaves the script, whichever guarded call throws: the
\* keydown listener is registered once the page has loaded, the body of
\* toggleTheme or applySavedTheme ran at most once in the last operation,
\* each key was written at most once and each target dispatched to at most
\* once.
C9_NoExceptionEscapes ==
  /\ ~last.escaped
  /\ phase = "ready" => listening
  /\ last.runs <= 1
  /\ Len(last.setCalls) <= 2
  /\ Len(last.setCalls) = 2 => last.setCalls[1] # last.setCalls[2]
  /\ Len(last.events) <= 2
  /\ Len(last.events) = 2 => last.events[1].target # last.events[2].target

\* An operation caught an exception and the next press of the shortcut was
\* handled in full by the manual toggle.
C9_Witness ==
  /\ prev.caught
  /\ prev.op \in {"load", "toggle", "click"}
  /\ last.op = "toggle"
  /\ last.caught = 0
  /\ Len(last.events) = 2
  /\ listening

\* The least element of a non-empty set of numbers.
least(S) == CHOOSE x \in S : \A y \in S : x <= y

\* The first element of d, in document order, that selector s matches.
firstMatch(d, s) == least({i \in 1..Len(d) : Matches(d[i], selectors[s])})

\* The selectors whose first match exists and is visible.
visibleHits(d) ==
  {s \in 1..NumSelectors :
     /\ \E i \in 1..Len(d) : Matches(d[i], selectors[s])
     /\ d[firstMatch(d, s)].offsetParent}

\* The visible buttons whose svg markup names a theme icon.
iconButtons(d) ==
  {i \in 1..Len(d) :
     d[i].tag = "button" /\ d[i].offsetParent /\ hasThemeIcon(d[i])}

\* The control the search is to click: the match of the first selector whose
\* match is visible, else the first visible icon button, else none.
expectedClicks(d) ==
  IF visibleHits(d) # {}
    THEN <<firstMatch(d, least(visibleHits(d)))>>
    ELSE IF iconButtons(d) # {}
      THEN <<least(iconButtons(d))>>
      ELSE <<>>

\* C10: a press clicks at most one control, clickThemeToggleButton returns
\* true exactly when it clicked one, the control clicked is the match of the
\* first selector (in the fixed order) whose match is visible, else the
\* first visible button with a theme icon, and no hidden element is clicked.
C10_FirstVisibleControlClicked ==
  Pressed
  => /\ Len(last.clicks) <= 1
     /\ last.ret <=> Len(last.clicks) = 1
     /\ last.calls = last.clicks
     /\ last.clicks = expectedClicks(dom)
     /\ \A k \in 1..Len(last.clicks) : dom[last.clicks[k]].offsetParent

\* A press on a page whose first element is a hidden control that a
\* selector matches and whose second is a visible icon button: the second
\* is clicked.
C10_Witness ==
  /\ Pressed
  /\ Len(dom) = 2
  /\ ~dom[1].offsetParent
  /\ \E s \in 1..NumSelectors : Matches(dom[1], selectors[s])
  /\ last.clicks = <<2>>
  /\ last.ret
====
